---- MODULE Spec2Model ----
(***************************************************************************)
(* A model of the LittleFS forensic scripts of src/tool:                   *)
(*   scan.py          - per-block tag listing            (prog = "scan")    *)
(*   recover_files.py - NAME search and data carving     (prog = "recover") *)
(*   list_fs.py       - geometry check and mount         (SpecListFs)       *)
(*   superblock.py    - superblock summary               (SpecSuperblock)   *)
(*   helper2.py       - first tag after the superblock   (SpecSuperblock)   *)
(* and of the metadata log fold of spec.md section 4.4     (SpecWalker),    *)
(* which the scripts leave to the littlefs library.                         *)
(*                                                                          *)
(* Bytes are naturals 0..255 and an image is a sequence of bytes; Python's  *)
(* buf[o] is buf[o + 1] here.  A 32-bit word is kept as its four bytes,     *)
(* most significant first, because TLC's integers are signed 32-bit and     *)
(* 0xFFFFFFFF does not fit: struct.unpack_from(">I") followed by shifts and *)
(* masks is computed on the four bytes.  A value a loop iteration computes  *)
(* once (the block, the stored word, the tag, its fields) is bound with     *)
(* \E x \in {e}, which TLC evaluates once.                                  *)
(***************************************************************************)
EXTENDS Integers, Sequences, FiniteSets, TLC

VARIABLES
    prog,       \* which script runs: "scan", "recover", "listfs", "superblock", "helper2", "walker"
    buf,        \* the image bytes read by Path(...).read_bytes()
    logs,       \* ghost: per block, the records the image producer wrote
    fillByte,   \* ghost: the byte the producer left in the unwritten part of each block
    tailBytes,  \* ghost: bytes of the image after its last whole block
    target,     \* recover_files: sys.argv[2].encode("utf-8")
    blk,        \* block index of the loop over blocks
    pos,        \* cursor inside the block (off in scan.py, pos in recover_files.py)
    xor,        \* the decoder's xor state
    out,        \* scan.py: the records printed so far, <<block, offset, fields, payload>>
    pc,         \* position of the running script
    result,     \* what the script reported when it ended
    args,       \* list_fs.py / superblock.py: the command line and the file it names
    steps,      \* list_fs.py: the steps main() has taken, in order
    fs,         \* list_fs.py: the LittleFS object, once constructed
    walked,     \* log walker: the records folded so far
    live        \* log walker: object id -> entry under construction

\* The variables of the image decoders, of list_fs.py, of the log walker.
imageVars  == <<buf, logs, fillByte, tailBytes, target, blk, pos, xor, out>>
listVars   == <<steps, fs>>
walkVars   == <<walked, live>>

vars == <<prog, pc, result, args, imageVars, listVars, walkVars>>

----------------------------------------------------------------------------
(* Bounds of the model *)

\* A block is BlockWords 32-bit words long (128 in the source, scaled down).
BlockWords == 6
\* Most records the image producer writes into the first block.
MaxRecs == 3

----------------------------------------------------------------------------
(* Bytes, words, slices *)

Min(a, b) == IF a < b THEN a ELSE b

\* Python b[lo:hi] for 0 <= lo: clamped to the length of b, never an error.
Slice(b, lo, hi) == SubSeq(b, lo + 1, Min(hi, Len(b)))

\* Bit k (given by its weight 1, 2, 4, ...) of a ^ b, at its weight.
XorBit(a, b, k) == k * ((((a \div k) % 2) + ((b \div k) % 2)) % 2)

\* a ^ b on bytes.
XorByte(a, b) ==
    XorBit(a, b, 1) + XorBit(a, b, 2) + XorBit(a, b, 4) + XorBit(a, b, 8)
        + XorBit(a, b, 16) + XorBit(a, b, 32) + XorBit(a, b, 64) + XorBit(a, b, 128)

\* stored ^ xor on 32-bit words.
XorWord(v, w) == [i \in 1..4 |-> XorByte(v[i], w[i])]

\* 0xFFFFFFFF
XOR_SEED == <<255, 255, 255, 255>>

\* struct.unpack_from(">I", b, o)[0], kept as the four bytes it reads.
be32(b, o) == <<b[o + 1], b[o + 2], b[o + 3], b[o + 4]>>

\* decode(tag): the shifts and masks on the big-endian bytes w[1..4].
decode(w) ==
    [ inv |-> w[1] \div 128,
      typ |-> (w[1] \div 16) % 8,
      chk |-> (w[1] % 16) * 16 + (w[2] \div 16),
      id  |-> (w[2] % 16) * 64 + (w[3] \div 4),
      ln  |-> (w[3] % 4) * 256 + w[4] ]

\* n & ~3: rounds down instead of up.
align4_down(n) == n - (n % 4)

\* (n + 3) & ~3: n + 3 with its two low bits cleared.
align4(n) == (n + 3) - ((n + 3) % 4)

BLOCK_SIZE == 4 * BlockWords

\* bytes.rstrip(b"\0")
RECURSIVE rstrip0(_)
rstrip0(s) ==
    IF s # <<>> /\ s[Len(s)] = 0 THEN rstrip0(SubSeq(s, 1, Len(s) - 1)) ELSE s

----------------------------------------------------------------------------
(* The image producer (spec.md section 3): records, their tags, the XOR     *)
(* chain of the stored words.  The scripts only read what it wrote.         *)

\* A record is [typ, chk, id, data]; its tag carries ln = Len(data).
MkTag(typ, chk, id, ln) ==
    << typ * 16 + (chk \div 16),
       (chk % 16) * 16 + (id \div 64),
       (id % 64) * 4 + (ln \div 256),
       ln % 256 >>

TagOf(r) == MkTag(r.typ, r.chk, r.id, Len(r.data))

\* The padding after a payload, up to the next 4-byte boundary.
PadTo4(n) == [i \in 1..((4 - (n % 4)) % 4) |-> 0]

\* stored_i = tag_i XOR tag_(i-1), each followed by its payload and padding.
RECURSIVE EncodeRecs(_, _)
EncodeRecs(recs, prev) ==
    IF recs = <<>> THEN <<>>
    ELSE LET t == TagOf(Head(recs))
         IN  XorWord(t, prev) \o Head(recs).data \o PadTo4(Len(Head(recs).data))
                 \o EncodeRecs(Tail(recs), t)

REVISION == <<1, 0, 0, 0>>

\* One block: revision counter, the chained records from offset 4, then the
\* fill byte; cut at the block size (a record that does not fit is cut).
EncodeBlock(recs, fill) ==
    SubSeq(REVISION \o EncodeRecs(recs, XOR_SEED) \o [i \in 1..BLOCK_SIZE |-> fill],
           1, BLOCK_SIZE)

RECURSIVE EncodeImage(_, _)
EncodeImage(ls, fill) ==
    IF ls = <<>> THEN <<>> ELSE EncodeBlock(Head(ls), fill) \o EncodeImage(Tail(ls), fill)

\* Offsets at which the producer put the tags of recs, the first at off.
RECURSIVE TagOffsets(_, _)
TagOffsets(recs, off) ==
    IF recs = <<>> THEN <<>>
    ELSE <<off>> \o TagOffsets(Tail(recs), off + 4 + Len(Head(recs).data)
                                              + Len(PadTo4(Len(Head(recs).data))))

\* b"littlefs"
MAGIC == <<108, 105, 116, 116, 108, 101, 102, 115>>

\* The name record of a superblock: its payload is the magic at offset 8.
SuperName == [typ |-> 0, chk |-> 255, id |-> 0, data |-> MAGIC]

NameA     == [typ |-> 0, chk |-> 1, id |-> 1, data |-> <<97>>]
NameA0    == [typ |-> 0, chk |-> 1, id |-> 1, data |-> <<97, 0, 0, 0>>]
NameLong  == [typ |-> 0, chk |-> 1, id |-> 2, data |-> <<97, 98, 99, 100, 101>>]
StructIn  == [typ |-> 2, chk |-> 1, id |-> 1, data |-> <<120, 121, 122>>]
StructCtz == [typ |-> 2, chk |-> 2, id |-> 2, data |-> <<5, 0, 0, 0, 9, 0, 0, 0>>]
Delete    == [typ |-> 4, chk |-> 255, id |-> 1, data |-> <<>>]

RecordPool == {SuperName, NameA, NameA0, NameLong, StructIn, StructCtz, Delete}

\* Logs of at most n records whose every tag word starts inside the block
\* (the payload of the last one may reach past the block and is then cut).
RECURSIVE Logs(_)
Logs(n) ==
    IF n = 0 THEN {<<>>}
    ELSE LET shorter == Logs(n - 1)
         IN  shorter \cup
             { Append(l, r) : l \in {x \in shorter : Len(x) = n - 1}, r \in RecordPool }

TagsFit(l) ==
    LET offs == TagOffsets(l, 4)
    IN  \A i \in 1..Len(l) : offs[i] + 4 <= BLOCK_SIZE

BlockLogs(n) == {l \in Logs(n) : TagsFit(l)}

\* Everything of every record lies inside the block.
RecordsFit(l) ==
    LET offs == TagOffsets(l, 4)
    IN  \A i \in 1..Len(l) : offs[i] + 4 + Len(l[i].data) <= BLOCK_SIZE

Targets == {<<97>>, <<97, 98, 99, 100>>, <<97, 98, 99, 100, 101>>, <<>>}

----------------------------------------------------------------------------
(* Values of the variables a script does not use *)

NoResult == [kind |-> "none"]
NoArgs   == [kind |-> "none"]
NoFs     == [kind |-> "none"]

ImageIdle ==
    /\ buf = <<>> /\ logs = <<>> /\ fillByte = 255 /\ tailBytes = <<>>
    /\ target = <<>> /\ blk = 0 /\ pos = 4 /\ xor = XOR_SEED /\ out = <<>>

ListIdle == steps = <<>> /\ fs = NoFs

WalkIdle == walked = <<>> /\ live = <<>>

----------------------------------------------------------------------------
(* scan.py *)

\* len(buf) // BLOCK_SIZE
BlockCountOf(b) == Len(b) \div BLOCK_SIZE

\* buf[i*BLOCK_SIZE:(i+1)*BLOCK_SIZE]
BlockOf(b, i) == Slice(b, i * BLOCK_SIZE, (i + 1) * BLOCK_SIZE)

\* ((len + 3) & ~3) of scan.py line 40
scan_pad(n) == (n + 3) - ((n + 3) % 4)

\* xor = stored: chains the stored words instead of the decoded tags.
scan_next_xor_stored(stored, tag) == stored

\* xor = tag (scan.py line 25)
scan_next_xor(stored, tag) == tag

\* The line scan.py prints for a record, as data.
ScanLine(b, off, f, payload) ==
    [ blk |-> b, off |-> off, typ |-> f.typ, id |-> f.id, len |-> f.ln,
      chk |-> f.chk, payload |-> payload,
      detail |-> IF f.typ = 0 THEN "name"
                 ELSE IF f.typ = 2 /\ f.ln >= 8
                      THEN (IF f.chk = 1 THEN "inline" ELSE "ctz")
                      ELSE "none" ]

ScanHeader(b) ==
    [ blk |-> b, off |-> 0, typ |-> 0, id |-> 0, len |-> 0, chk |-> 0,
      payload |-> <<>>, detail |-> "super-block" ]

\* main(): the next block of the for loop; the header line; scan() starts.
ScanBlock ==
    /\ prog = "scan" /\ pc = "block"
    /\ blk < BlockCountOf(buf)
    /\ out' = IF Slice(BlockOf(buf, blk), 8, 16) = MAGIC
              THEN Append(out, ScanHeader(blk)) ELSE out
    /\ pos' = 4
    /\ xor' = XOR_SEED
    /\ pc' = "tags"
    /\ UNCHANGED <<args, listVars, walkVars, prog, buf, logs, fillByte, tailBytes, target, blk, result>>

\* main(): the for loop is exhausted.
ScanFinish ==
    /\ prog = "scan" /\ pc = "block"
    /\ blk >= BlockCountOf(buf)
    /\ pc' = "done"
    /\ UNCHANGED <<args, listVars, walkVars, prog, buf, logs, fillByte, tailBytes, target, blk, pos, xor, out, result>>

\* scan(): one iteration of the while loop that prints a record.
ScanEmit ==
    /\ prog = "scan" /\ pc = "tags"
    /\ pos + 4 <= BLOCK_SIZE
    /\ \E block \in {BlockOf(buf, blk)} :
       \E stored \in {be32(block, pos)} :
       \E tag \in {XorWord(stored, xor)} :
       \E f \in {decode(tag)} :
           /\ f.inv = 0
           /\ pos + 4 + f.ln <= BLOCK_SIZE
           /\ xor' = scan_next_xor(stored, tag)
           /\ out' = Append(out, ScanLine(blk, pos, f, Slice(block, pos + 4, pos + 4 + f.ln)))
           /\ pos' = pos + 4 + scan_pad(f.ln)
    /\ UNCHANGED <<args, listVars, walkVars, prog, buf, logs, fillByte, tailBytes, target, blk, pc, result>>

\* scan(): the while loop ends (cursor at the block end, invalid bit, or a
\* payload reaching past the block) and main() goes to the next block.
ScanBreak ==
    /\ prog = "scan" /\ pc = "tags"
    /\ IF pos + 4 > BLOCK_SIZE
       THEN xor' = xor
       ELSE \E stored \in {be32(BlockOf(buf, blk), pos)} :
            \E tag \in {XorWord(stored, xor)} :
            \E f \in {decode(tag)} :
                /\ f.inv = 1 \/ pos + 4 + f.ln > BLOCK_SIZE
                /\ xor' = IF f.inv = 1 THEN xor ELSE scan_next_xor(stored, tag)
    /\ blk' = blk + 1
    /\ pc' = "block"
    /\ UNCHANGED <<args, listVars, walkVars, prog, buf, logs, fillByte, tailBytes, target, pos, out, result>>

----------------------------------------------------------------------------
(* recover_files.py *)

\* A carve that also stops at the end of the block it is in.
RECURSIVE carve_end_in_block(_, _)
carve_end_in_block(b, end) ==
    IF end < Len(b) /\ b[end + 1] # 255 /\ (end + 1) % BLOCK_SIZE # 0
    THEN carve_end_in_block(b, end + 1) ELSE end

\* buf[data_start:end] with end the first 0xFF at or after data_start, or len(buf)
RECURSIVE carve_end(_, _)
carve_end(b, end) ==
    IF end < Len(b) /\ b[end + 1] # 255 THEN carve_end(b, end + 1) ELSE end

\* data_start (recover_files.py lines 77-82)
data_start(b, p, ln) == b * BLOCK_SIZE + p + 4 + align4(ln)

\* name_bytes = blk[pos + 4 : pos + 4 + f["ln"]]
name_bytes(block, p, ln) == Slice(block, p + 4, p + 4 + ln)

\* for blk_idx in range(...): the next block; pos, xor = 4, 0xFFFFFFFF
RecBlock ==
    /\ prog = "recover" /\ pc = "block"
    /\ blk < BlockCountOf(buf)
    /\ pos' = 4
    /\ xor' = XOR_SEED
    /\ pc' = "tags"
    /\ UNCHANGED <<args, listVars, walkVars, prog, buf, logs, fillByte, tailBytes, target, blk, out, result>>

\* The loops end with no match: "not found in image".
RecNotFound ==
    /\ prog = "recover" /\ pc = "block"
    /\ blk >= BlockCountOf(buf)
    /\ result' = [kind |-> "notfound"]
    /\ pc' = "done"
    /\ UNCHANGED <<args, listVars, walkVars, prog, buf, logs, fillByte, tailBytes, target, blk, pos, xor, out>>

\* A NAME tag whose payload matches: carve, write the file, return.
RecMatch ==
    /\ prog = "recover" /\ pc = "tags"
    /\ pos + 4 <= BLOCK_SIZE
    /\ \E block \in {BlockOf(buf, blk)} :
       \E stored \in {be32(block, pos)} :
       \E tag \in {XorWord(stored, xor)} :
       \E f \in {decode(tag)} :
           /\ f.inv = 0
           /\ f.typ = 0
           /\ rstrip0(name_bytes(block, pos, f.ln)) = target
           /\ xor' = tag
           /\ \E start \in {data_start(blk, pos, f.ln)} :
                 result' = [ kind |-> "found", blk |-> blk, off |-> pos,
                             name |-> rstrip0(name_bytes(block, pos, f.ln)),
                             data |-> Slice(buf, start, carve_end(buf, start)) ]
    /\ pc' = "done"
    /\ UNCHANGED <<args, listVars, walkVars, prog, buf, logs, fillByte, tailBytes, target, blk, pos, out>>

\* Any other valid tag: move to the next tag.
RecAdvance ==
    /\ prog = "recover" /\ pc = "tags"
    /\ pos + 4 <= BLOCK_SIZE
    /\ \E block \in {BlockOf(buf, blk)} :
       \E stored \in {be32(block, pos)} :
       \E tag \in {XorWord(stored, xor)} :
       \E f \in {decode(tag)} :
           /\ f.inv = 0
           /\ ~(f.typ = 0 /\ rstrip0(name_bytes(block, pos, f.ln)) = target)
           /\ xor' = tag
           /\ pos' = pos + 4 + align4(f.ln)
    /\ UNCHANGED <<args, listVars, walkVars, prog, buf, logs, fillByte, tailBytes, target, blk, out, pc, result>>

\* The while loop ends: the cursor is at the block end, or the invalid bit is set.
RecBreak ==
    /\ prog = "recover" /\ pc = "tags"
    /\ IF pos + 4 > BLOCK_SIZE
       THEN xor' = xor
       ELSE \E tag \in {XorWord(be32(BlockOf(buf, blk), pos), xor)} :
                /\ decode(tag).inv = 1
                /\ xor' = tag
    /\ blk' = blk + 1
    /\ pc' = "block"
    /\ UNCHANGED <<args, listVars, walkVars, prog, buf, logs, fillByte, tailBytes, target, pos, out, result>>

----------------------------------------------------------------------------
(* The two decoders on the images of the producer *)

\* One-block images with up to MaxRecs records, and two-block images with one
\* record fewer in the first block and at most one in the second.
ImageLogs ==
    { <<l0>> : l0 \in BlockLogs(MaxRecs) }
        \cup { <<l0, l1>> : l0 \in BlockLogs(MaxRecs - 1), l1 \in BlockLogs(1) }

Init ==
    /\ prog \in {"scan", "recover"}
    /\ logs \in ImageLogs
    /\ fillByte \in {255, 0}
    /\ tailBytes \in {<<>>, <<66>>}
    /\ buf = EncodeImage(logs, fillByte) \o tailBytes
    /\ target \in (IF prog = "recover" THEN Targets ELSE {<<>>})
    /\ blk = 0
    /\ pos = 4
    /\ xor = XOR_SEED
    /\ out = <<>>
    /\ pc = "block"
    /\ result = NoResult
    /\ args = NoArgs
    /\ ListIdle
    /\ WalkIdle

Next ==
    \/ ScanBlock
    \/ ScanFinish
    \/ ScanEmit
    \/ ScanBreak
    \/ RecBlock
    \/ RecNotFound
    \/ RecMatch
    \/ RecAdvance
    \/ RecBreak

Spec == Init /\ [][Next]_vars

----------------------------------------------------------------------------
(* What the claims are stated against *)

\* The least multiple of 4 that is >= n.
LeastMultipleOf4(n) == CHOOSE m \in n..(n + 3) : m % 4 = 0

\* The payload lengths a 10-bit length field can hold.
LengthField == 0..1023

\* The tag at the cursor, as the loop at the cursor decodes it.
TagAtCursor == XorWord(be32(BlockOf(buf, blk), pos), xor)

\* What a printed line says of a record: block, type, chunk, id, length, payload.
Fields(line) == <<line.blk, line.typ, line.chk, line.id, line.len, line.payload>>

TagLines == SelectSeq(out, LAMBDA l : l.detail # "super-block")

\* The same of the first k records the producer wrote into block b.
Written(b, k) ==
    [i \in 1..k |-> LET r == logs[b + 1][i]
                    IN  <<b, r.typ, r.chk, r.id, Len(r.data), r.data>>]

RECURSIVE WrittenBefore(_)
WrittenBefore(b) ==
    IF b = 0 THEN <<>> ELSE WrittenBefore(b - 1) \o Written(b - 1, Len(logs[b]))

\* The records of block b whose tag lies before offset p.
CountBefore(b, p) ==
    LET offs == TagOffsets(logs[b + 1], 4)
    IN  Cardinality({i \in 1..Len(offs) : offs[i] < p})

\* Every record of every block lies inside its block.
AllFit == \A b \in 1..Len(logs) : RecordsFit(logs[b])

\* The unwritten part of every block is erased flash.
Erased == fillByte = 255

----------------------------------------------------------------------------
(* C4 *)

\* C4 as stated: for every sequence of valid tags that fits in a block, the
\* scan of the block encoded with the XOR chain prints exactly the original
\* tags, in order, with their ids, types, chunks, lengths and payloads.
C4_RoundTripStated ==
    (prog = "scan" /\ pc = "done" /\ AllFit /\ Erased)
        => [i \in 1..Len(TagLines) |-> Fields(TagLines[i])] = WrittenBefore(Len(logs))

\* C4 as amended: the same for non-empty sequences followed by erased bytes;
\* while a block is decoded the lines printed so far are the records written
\* before the cursor, the xor state is the tag of the last of them, and it is
\* 0xFFFFFFFF when a block starts.  Both decoders keep the xor state so.
C4_RoundTripNonEmpty ==
    (AllFit /\ Erased /\ \A b \in 1..Len(logs) : logs[b] # <<>>)
        => /\ (prog = "scan" /\ pc = "done")
                => [i \in 1..Len(TagLines) |-> Fields(TagLines[i])] = WrittenBefore(Len(logs))
           /\ pc = "tags"
                => LET k == CountBefore(blk, pos)
                   IN  /\ xor = IF k = 0 THEN XOR_SEED ELSE TagOf(logs[blk + 1][k])
                       /\ pos = 4 => xor = XOR_SEED
                       /\ prog = "scan"
                            => [i \in 1..Len(TagLines) |-> Fields(TagLines[i])]
                                   = WrittenBefore(blk) \o Written(blk, k)

\* C4 witness: the scan of a two-block image, three records then one, is over.
C4_Witness ==
    /\ prog = "scan" /\ pc = "done" /\ AllFit /\ Erased
    /\ Len(logs) = 2 /\ Len(logs[1]) >= 2 /\ Len(logs[2]) = 1
    /\ Len(TagLines) >= 3

----------------------------------------------------------------------------
(* C5 *)

\* C5: after a record at cursor p with payload length L the next tag is read
\* at p + 4 + align_up(L, 4), the least multiple of 4 that is >= L, in both
\* decoders and for every length 0..1023; the cursor starts at 4 in every
\* block and is a multiple of 4 at every step.  (The first conjunct is a fact
\* of the two operators, whatever the state: it is evaluated where the run
\* on the empty one-block image starts.)
C5_PaddingExact ==
    /\ []((pc = "block" /\ blk = 0 /\ logs = <<<<>>>>)
            => \A L \in LengthField :
                  align4(L) = LeastMultipleOf4(L) /\ scan_pad(L) = LeastMultipleOf4(L))
    /\ [](pos % 4 = 0)
    /\ [][ /\ (pc = "block" /\ pc' = "tags") => pos' = 4
           /\ (pc = "tags" /\ pc' = "tags")
                => pos' = pos + 4 + LeastMultipleOf4(decode(TagAtCursor).ln) ]_vars

\* C5 witness: a decoder has stepped over payloads of lengths 4 and 5, which
\* take 8 and 12 bytes with their tags.
C5_Witness ==
    /\ pc = "tags"
    /\ logs[blk + 1] = <<NameA0, NameLong>>
    /\ pos = 4 + 8 + 12

----------------------------------------------------------------------------
(* C10 *)

\* The length field of the tag recover_files.py matched: the match leaves
\* the matched tag in xor (line 60).
MatchedLen == decode(xor).ln

\* C10 as stated: in both decoders a record is printed or matched only if its
\* tag word and all `length` bytes of its payload lie inside the block.
C10_RecordInsideBlock ==
    /\ \A i \in 1..Len(TagLines) :
          TagLines[i].off + 4 + TagLines[i].len <= BLOCK_SIZE
    /\ (prog = "recover" /\ result.kind = "found")
          => result.off + 4 + MatchedLen <= BLOCK_SIZE

----------------------------------------------------------------------------
(* C8 *)

\* The records of a block as spec.md section 4.2 decodes them: from offset
\* off with xor state x, stopping at the invalid bit and at a record that
\* would reach past the block boundary.
RECURSIVE StreamRecords(_, _, _)
StreamRecords(block, off, x) ==
    IF off + 4 > Len(block) THEN <<>>
    ELSE LET tag == XorWord(be32(block, off), x)
             f   == decode(tag)
         IN  IF f.inv = 1 \/ off + 4 + f.ln > Len(block) THEN <<>>
             ELSE <<[off |-> off, f |-> f, payload |-> SubSeq(block, off + 5, off + 4 + f.ln)]>>
                      \o StreamRecords(block, off + 4 + LeastMultipleOf4(f.ln), tag)

\* The offsets in block b of the decodable NAME records that name the target.
BlockHits(b) ==
    LET rs == StreamRecords(BlockOf(buf, b), 4, XOR_SEED)
    IN  { rs[i].off :
            i \in { j \in 1..Len(rs) : rs[j].f.typ = 0 /\ rstrip0(rs[j].payload) = target } }

\* <<block, offset>> of every such record of the image.
NameHits ==
    UNION { { <<b, o>> : o \in BlockHits(b) } : b \in 0..(BlockCountOf(buf) - 1) }

FirstHit ==
    CHOOSE h \in NameHits :
        \A g \in NameHits : h[1] < g[1] \/ (h[1] = g[1] /\ h[2] <= g[2])

\* C8 as stated: the recovery scan reports the first decodable NAME record,
\* in block order and then stream order, whose payload without trailing NULs
\* is the target, and not-found exactly when no block holds one.
C8_FirstDecodableName ==
    (prog = "recover" /\ pc = "done")
        => IF NameHits = {} THEN result.kind = "notfound"
           ELSE result.kind = "found" /\ <<result.blk, result.off>> = FirstHit

----------------------------------------------------------------------------
(* C3 *)

\* Record i of block b is the NAME of a file, followed by its inline data
\* and the DELETE of its id, with nothing written after them.
FreshlyDeleted(b, i) ==
    LET l == logs[b + 1]
    IN  /\ i + 2 = Len(l)
        /\ RecordsFit(l)
        /\ l[i].typ = 0
        /\ l[i + 1].typ = 2 /\ l[i + 1].chk = 1 /\ l[i + 1].id = l[i].id
        /\ l[i + 2].typ = 4 /\ l[i + 2].id = l[i].id

\* C3 as stated: the recovery scan for the name of a freshly deleted file
\* returns exactly the content written before the deletion.
C3_RecoversContent ==
    \A b \in 0..(Len(logs) - 1) : \A i \in 1..Len(logs[b + 1]) :
        ( /\ prog = "recover" /\ pc = "done" /\ Erased
          /\ FreshlyDeleted(b, i)
          /\ rstrip0(logs[b + 1][i].data) = target
          /\ result.kind = "found" /\ result.blk = b
          /\ result.off = TagOffsets(logs[b + 1], 4)[i] )
            => result.data = logs[b + 1][i + 1].data

----------------------------------------------------------------------------
(* C9 *)

\* C9: on a match at block b, offset p, name length L the recovered data is
\* the image from b*block_size + p + 4 + align_up(L, 4) up to the first 0xFF
\* byte at or after it, or to the end of the image: it holds no 0xFF, it ends
\* at a 0xFF or at the end of the image, and the block end does not cut it.
C9_CarveBounds ==
    (prog = "recover" /\ result.kind = "found")
        => LET s == result.blk * BLOCK_SIZE + result.off + 4 + LeastMultipleOf4(MatchedLen)
               d == result.data
           IN  /\ \A i \in 1..Len(d) : d[i] # 255 /\ s + i <= Len(buf) /\ d[i] = buf[s + i]
               /\ s + Len(d) < Len(buf) => buf[s + Len(d) + 1] = 255
               /\ (s >= Len(buf) \/ buf[s + 1] = 255) => d = <<>>

\* C9 witness: recovered data that starts in the matched block and ends in
\* the next one.
C9_Witness ==
    /\ prog = "recover" /\ result.kind = "found"
    /\ LET s == result.blk * BLOCK_SIZE + result.off + 4 + LeastMultipleOf4(MatchedLen)
       IN  /\ s < (result.blk + 1) * BLOCK_SIZE
           /\ s + Len(result.data) > (result.blk + 1) * BLOCK_SIZE
           /\ s + Len(result.data) < Len(buf)

----------------------------------------------------------------------------
(* list_fs.py *)

\* Longest image and largest -b value tried.
MaxImageLen == 12
MaxBlockSizeArg == 4

\* The size check left out.
geometry_unchecked(len, block_size) == TRUE

\* len(buf) % args.block_size != 0 is the failure; this is the check passing.
geometry_ok(len, block_size) == len % block_size = 0

\* block_count = len(buf) // args.block_size
block_count(len, block_size) == len \div block_size

ListUnchanged == UNCHANGED <<prog, args, imageVars, walkVars>>

\* buf = bytearray(args.image.read_bytes()), or the exit on FileNotFoundError
LfsRead ==
    /\ prog = "listfs" /\ pc = "read"
    /\ steps' = Append(steps, "read")
    /\ IF args.exists
       THEN pc' = "geometry" /\ result' = result
       ELSE pc' = "done" /\ result' = [kind |-> "exit", why |-> "image not found"]
    /\ fs' = fs
    /\ ListUnchanged

\* The size check: exit, or block_count; a block size of 0 divides by zero.
LfsGeometry ==
    /\ prog = "listfs" /\ pc = "geometry"
    /\ steps' = Append(steps, "geometry")
    /\ IF args.block_size = 0
       THEN pc' = "done" /\ result' = [kind |-> "raise", why |-> "ZeroDivisionError"]
       ELSE IF ~geometry_ok(args.len, args.block_size)
            THEN pc' = "done" /\ result' = [kind |-> "exit", why |-> "not a multiple of block size"]
            ELSE pc' = "construct" /\ result' = result
    /\ fs' = fs
    /\ ListUnchanged

\* fs = LittleFS(block_size=..., block_count=..., mount=False)
LfsConstruct ==
    /\ prog = "listfs" /\ pc = "construct"
    /\ steps' = Append(steps, "construct")
    /\ fs' = [ kind |-> "fs", block_size |-> args.block_size,
               block_count |-> block_count(args.len, args.block_size),
               injected |-> FALSE, mounted |-> FALSE ]
    /\ pc' = "inject"
    /\ UNCHANGED result
    /\ ListUnchanged

\* fs.context.buffer[:] = buf
LfsInject ==
    /\ prog = "listfs" /\ pc = "inject"
    /\ steps' = Append(steps, "inject")
    /\ fs' = [fs EXCEPT !.injected = TRUE]
    /\ pc' = "mount"
    /\ UNCHANGED result
    /\ ListUnchanged

\* fs.mount(): the library's answer is its own; non-zero exits.
LfsMount ==
    /\ prog = "listfs" /\ pc = "mount"
    /\ steps' = Append(steps, "mount")
    /\ \E rc \in {0, -84} :
          IF rc # 0
          THEN /\ pc' = "done" /\ fs' = fs
               /\ result' = [kind |-> "exit", why |-> "failed to mount"]
          ELSE /\ pc' = "tree" /\ fs' = [fs EXCEPT !.mounted = TRUE]
               /\ result' = result
    /\ ListUnchanged

\* The banner and _print_tree(fs)
LfsTree ==
    /\ prog = "listfs" /\ pc = "tree"
    /\ steps' = Append(steps, "tree")
    /\ pc' = IF args.contents THEN "dump" ELSE "unmount"
    /\ UNCHANGED <<fs, result>>
    /\ ListUnchanged

\* _dump_files(fs), with -c
LfsDump ==
    /\ prog = "listfs" /\ pc = "dump"
    /\ steps' = Append(steps, "dump")
    /\ pc' = "unmount"
    /\ UNCHANGED <<fs, result>>
    /\ ListUnchanged

\* fs.unmount()
LfsUnmount ==
    /\ prog = "listfs" /\ pc = "unmount"
    /\ steps' = Append(steps, "unmount")
    /\ fs' = [fs EXCEPT !.mounted = FALSE]
    /\ pc' = "done"
    /\ result' = [kind |-> "exit", why |-> "ok"]
    /\ ListUnchanged

InitListFs ==
    /\ prog = "listfs"
    /\ pc = "read"
    /\ result = NoResult
    /\ args \in [ kind : {"listfs"}, exists : BOOLEAN, len : 0..MaxImageLen,
                  block_size : 0..MaxBlockSizeArg, contents : BOOLEAN ]
    /\ ListIdle
    /\ ImageIdle
    /\ WalkIdle

NextListFs ==
    \/ LfsRead
    \/ LfsGeometry
    \/ LfsConstruct
    \/ LfsInject
    \/ LfsMount
    \/ LfsTree
    \/ LfsDump
    \/ LfsUnmount

SpecListFs == InitListFs /\ [][NextListFs]_vars

\* Steps that build, fill or mount the filesystem, or read its metadata.
AfterGeometry == {"construct", "inject", "mount", "tree", "dump", "unmount"}

\* C1: for an image that could be read, with a block size > 0 that does not
\* divide the image length, the run ends in the geometry failure and nothing
\* but the read and the check has happened; otherwise the filesystem is
\* built with block_count = image_length / block_size.
C1_GeometryFirst ==
    /\ (args.exists /\ args.block_size > 0 /\ args.len % args.block_size # 0)
          => /\ \A i \in 1..Len(steps) : steps[i] \notin AfterGeometry
             /\ fs = NoFs
             /\ pc = "done" => /\ result = [kind |-> "exit", why |-> "not a multiple of block size"]
                               /\ steps = <<"read", "geometry">>
    /\ fs # NoFs
          => /\ fs.block_count * args.block_size = args.len
             /\ fs.block_size = args.block_size
    /\ (\E i \in 1..Len(steps) : steps[i] \in AfterGeometry)
          => \E j \in 1..Len(steps) : steps[j] = "geometry" /\ \A i \in 1..j : steps[i] \notin AfterGeometry

\* C1 witness: a run that ended in the geometry failure.
C1_Witness ==
    /\ pc = "done" /\ args.block_size > 1 /\ args.len % args.block_size # 0
    /\ result = [kind |-> "exit", why |-> "not a multiple of block size"]

----------------------------------------------------------------------------
(* superblock.py and helper2.py *)

\* A superblock image has blocks of SuperWords 32-bit words: revision, the
\* "littlefs" name record, the 24-byte inline struct and one more record.
SuperWords == 13

SUPER_BLOCK_SIZE == 4 * SuperWords

MAGIC_OFF  == 8
TAG201_OFF == MAGIC_OFF + 8
FIELDS_OFF == TAG201_OFF + 4

\* helper2.py
FIRST_TAG_OFF == 44
\* 0x20100018, the decoded inline-struct tag helper2.py assumes
PREV_DEC == <<32, 16, 0, 24>>

\* One "<I" of struct.unpack_from: four bytes, least significant first in
\* the image, kept most significant first.
le32(b, o) == <<b[o + 4], b[o + 3], b[o + 2], b[o + 1]>>

\* A word below 2^31 as a number.
WordValue(w) == ((w[1] * 256 + w[2]) * 256 + w[3]) * 256 + w[4]

\* struct.unpack_from("<IIIIII", buf, off), with version >> 16 and version & 0xFFFF
unpack_fields(b, off) ==
    LET version == le32(b, off)
    IN  [ major       |-> version[1] * 256 + version[2],
          minor       |-> version[3] * 256 + version[4],
          block_size  |-> le32(b, off + 4),
          block_count |-> le32(b, off + 8),
          name_max    |-> le32(b, off + 12),
          file_max    |-> le32(b, off + 16),
          attr_max    |-> le32(b, off + 20) ]

\* The producer's side: the six fields, little-endian, and the block variants.
SuperFields(count) ==
    <<0, 0, 2, 0>> \o <<SUPER_BLOCK_SIZE, 0, 0, 0>> \o <<count, 0, 0, 0>>
        \o <<255, 0, 0, 0>> \o <<255, 255, 255, 127>> \o <<254, 3, 0, 0>>

SuperStruct(shape, count) ==
    IF shape = "inline24" THEN [typ |-> 2, chk |-> 1, id |-> 0, data |-> SuperFields(count)]
    ELSE IF shape = "name" THEN [typ |-> 0, chk |-> 1, id |-> 0, data |-> SuperFields(count)]
    ELSE [typ |-> 2, chk |-> 1, id |-> 0, data |-> SubSeq(SuperFields(count), 1, 8)]

BlockVariants ==
    [ super : {TRUE}, rev : {4, 7}, shape : {"inline24", "name", "short"},
      count : {16, 32}, after : {NameA, Delete} ]
        \cup [ super : {FALSE}, rev : {4, 7}, shape : {"inline24"}, count : {16}, after : {NameA} ]

VariantLog(v) ==
    IF v.super THEN <<SuperName, SuperStruct(v.shape, v.count), v.after>> ELSE <<v.after>>

EncodeSuperBlock(v) ==
    SubSeq(<<v.rev, 0, 0, 0>> \o EncodeRecs(VariantLog(v), XOR_SEED)
               \o [i \in 1..SUPER_BLOCK_SIZE |-> 255],
           1, SUPER_BLOCK_SIZE)

\* Whole images, and images cut inside the fields of block 1 or of block 0.
ImageLengths == {2 * SUPER_BLOCK_SIZE, SUPER_BLOCK_SIZE + FIELDS_OFF + 10, FIELDS_OFF + 10}

SuperUnchanged == UNCHANGED <<prog, args, buf, logs, fillByte, tailBytes, target, pos, xor, out, listVars, walkVars>>

\* extract_superblock_summary: the block carries the magic and the six fields
\* can be unpacked; they are printed and block_size is returned.
SbFound ==
    /\ prog = "superblock" /\ pc = "try"
    /\ blk \in {0, 1}
    /\ LET start == blk * args.default_block_size
       IN  /\ Slice(buf, start + 8, start + 16) = MAGIC
           /\ start + FIELDS_OFF + 24 <= Len(buf)
           /\ result' = [ kind |-> "summary", block_id |-> blk,
                          fields |-> unpack_fields(buf, start + FIELDS_OFF) ]
    /\ pc' = "done"
    /\ blk' = blk
    /\ SuperUnchanged

\* The block carries the magic and the image ends inside the fields: struct.error.
SbUnpackError ==
    /\ prog = "superblock" /\ pc = "try"
    /\ blk \in {0, 1}
    /\ LET start == blk * args.default_block_size
       IN  /\ Slice(buf, start + 8, start + 16) = MAGIC
           /\ start + FIELDS_OFF + 24 > Len(buf)
    /\ result' = [kind |-> "raise", why |-> "struct.error"]
    /\ pc' = "done"
    /\ blk' = blk
    /\ SuperUnchanged

\* No magic in this block: the next block_id.
SbNextBlock ==
    /\ prog = "superblock" /\ pc = "try"
    /\ blk \in {0, 1}
    /\ LET start == blk * args.default_block_size
       IN  Slice(buf, start + 8, start + 16) # MAGIC
    /\ blk' = blk + 1
    /\ UNCHANGED <<pc, result>>
    /\ SuperUnchanged

\* Neither block: raise ValueError.
SbNone ==
    /\ prog = "superblock" /\ pc = "try"
    /\ blk \notin {0, 1}
    /\ result' = [kind |-> "raise", why |-> "ValueError: no valid superblock"]
    /\ pc' = "done"
    /\ blk' = blk
    /\ SuperUnchanged

\* helper2.py: no magic at block 0.
H2NoMagic ==
    /\ prog = "helper2" /\ pc = "try"
    /\ Slice(buf, 8, 16) # MAGIC
    /\ result' = [kind |-> "exit", why |-> "no LittleFS magic at block 0"]
    /\ pc' = "done"
    /\ blk' = blk
    /\ SuperUnchanged

\* helper2.py: be32(buf, FIRST_TAG_OFF) past the end of the image.
H2ReadError ==
    /\ prog = "helper2" /\ pc = "try"
    /\ Slice(buf, 8, 16) = MAGIC
    /\ FIRST_TAG_OFF + 4 > Len(buf)
    /\ result' = [kind |-> "raise", why |-> "struct.error"]
    /\ pc' = "done"
    /\ blk' = blk
    /\ SuperUnchanged

\* helper2.py: the tag after the superblock is not a NAME tag.
H2NotName ==
    /\ prog = "helper2" /\ pc = "try"
    /\ Slice(buf, 8, 16) = MAGIC
    /\ FIRST_TAG_OFF + 4 <= Len(buf)
    /\ decode(XorWord(be32(buf, FIRST_TAG_OFF), PREV_DEC)).typ # 0
    /\ result' = [kind |-> "exit", why |-> "first post-super tag is not NAME"]
    /\ pc' = "done"
    /\ blk' = blk
    /\ SuperUnchanged

\* helper2.py: the NAME tag's fields and its filename bytes are shown.
H2Show ==
    /\ prog = "helper2" /\ pc = "try"
    /\ Slice(buf, 8, 16) = MAGIC
    /\ FIRST_TAG_OFF + 4 <= Len(buf)
    /\ LET info == decode(XorWord(be32(buf, FIRST_TAG_OFF), PREV_DEC))
       IN  /\ info.typ = 0
           /\ result' = [ kind |-> "name", info |-> info,
                          name_raw |-> Slice(buf, FIRST_TAG_OFF + 4,
                                             FIRST_TAG_OFF + 4 + info.ln) ]
    /\ pc' = "done"
    /\ blk' = blk
    /\ SuperUnchanged

InitSuperblock ==
    /\ prog \in {"superblock", "helper2"}
    /\ pc = "try"
    /\ result = NoResult
    /\ args = [kind |-> "superblock", default_block_size |-> SUPER_BLOCK_SIZE]
    /\ logs \in BlockVariants \X BlockVariants
    /\ \E n \in ImageLengths :
          buf = SubSeq(EncodeSuperBlock(logs[1]) \o EncodeSuperBlock(logs[2]), 1, n)
    /\ fillByte = 255 /\ tailBytes = <<>> /\ target = <<>>
    /\ blk = 0 /\ pos = 4 /\ xor = XOR_SEED /\ out = <<>>
    /\ ListIdle
    /\ WalkIdle

NextSuperblock ==
    \/ SbFound
    \/ SbUnpackError
    \/ SbNextBlock
    \/ SbNone
    \/ H2NoMagic
    \/ H2ReadError
    \/ H2NotName
    \/ H2Show

SpecSuperblock == InitSuperblock /\ [][NextSuperblock]_vars

\* Block j of the image carries the magic.
HasMagic(j) == Slice(buf, j * SUPER_BLOCK_SIZE + 8, j * SUPER_BLOCK_SIZE + 16) = MAGIC

\* The revision counter of block j, little-endian.
RevisionOf(j) == WordValue(le32(buf, j * SUPER_BLOCK_SIZE))

\* The record after the magic of block j, decoded along the XOR chain, is an
\* inline struct of at least 24 bytes.
WellFormed(j) ==
    LET start == j * SUPER_BLOCK_SIZE
        name  == XorWord(be32(buf, start + 4), XOR_SEED)
        f     == decode(XorWord(be32(buf, start + TAG201_OFF), name))
    IN  f.inv = 0 /\ f.typ = 2 /\ f.chk = 1 /\ f.ln >= 24

\* C2 as stated: when both blocks carry the magic, the fields reported are
\* those of the block whose revision counter is greater.
C2_MirrorSelection ==
    ( /\ prog = "superblock" /\ pc = "done"
      /\ Len(buf) = 2 * SUPER_BLOCK_SIZE
      /\ HasMagic(0) /\ HasMagic(1)
      /\ RevisionOf(0) # RevisionOf(1) )
        => LET newer == IF RevisionOf(1) > RevisionOf(0) THEN 1 ELSE 0
           IN  /\ result.kind = "summary"
               /\ result.fields = unpack_fields(buf, newer * SUPER_BLOCK_SIZE + FIELDS_OFF)

\* C6 as stated: when the block carries the magic and the record after it is
\* not the inline struct, or is shorter than 24 bytes, the locator fails and
\* reports no fields.
C6_MalformedRejected ==
    (prog = "superblock" /\ pc = "done" /\ result.kind = "summary")
        => WellFormed(result.block_id)

----------------------------------------------------------------------------
(* The metadata log walker of spec.md section 4.4.  list_fs.py leaves the    *)
(* fold to the littlefs library (fs.listdir, fs.stat): it is modelled from   *)
(* the specification.                                                        *)

\* Most records of a walked log.
MaxLog == 4

ObjectIds   == {3, 5}
EntryNames  == {"a.txt", "b.txt"}
InlineData  == {"x", "y"}

\* NAME establishes or renames the id's name and kind.
fold_name(l, id, name, kind) ==
    [i \in DOMAIN l \cup {id} |->
        IF i # id THEN l[i]
        ELSE IF id \in DOMAIN l THEN [l[id] EXCEPT !.name = name, !.kind = kind]
             ELSE [name |-> name, kind |-> kind, struct |-> "none"]]

\* STRUCT sets or replaces the id's structure.
fold_struct(l, id, st) ==
    [i \in DOMAIN l \cup {id} |->
        IF i # id THEN l[i]
        ELSE IF id \in DOMAIN l THEN [l[id] EXCEPT !.struct = st]
             ELSE [name |-> "none", kind |-> "none", struct |-> st]]

\* The tombstone that forgets to remove the entry.
fold_delete_kept(l, id) == l

\* DELETE removes the id from the live mapping entirely.
fold_delete(l, id) == [i \in DOMAIN l \ {id} |-> l[i]]

WalkUnchanged == UNCHANGED <<prog, pc, result, args, imageVars, listVars>>

WalkName ==
    /\ prog = "walker" /\ Len(walked) < MaxLog
    /\ \E id \in ObjectIds, name \in EntryNames :
          /\ walked' = Append(walked, [typ |-> "NAME", id |-> id, arg |-> name])
          /\ live' = fold_name(live, id, name, "file")
    /\ WalkUnchanged

WalkStruct ==
    /\ prog = "walker" /\ Len(walked) < MaxLog
    /\ \E id \in ObjectIds, st \in InlineData :
          /\ walked' = Append(walked, [typ |-> "STRUCT", id |-> id, arg |-> st])
          /\ live' = fold_struct(live, id, st)
    /\ WalkUnchanged

WalkDelete ==
    /\ prog = "walker" /\ Len(walked) < MaxLog
    /\ \E id \in ObjectIds :
          /\ walked' = Append(walked, [typ |-> "DELETE", id |-> id, arg |-> "none"])
          /\ live' = fold_delete(live, id)
    /\ WalkUnchanged

InitWalker ==
    /\ prog = "walker"
    /\ pc = "fold"
    /\ result = NoResult
    /\ args = NoArgs
    /\ ImageIdle
    /\ ListIdle
    /\ WalkIdle

NextWalker == WalkName \/ WalkStruct \/ WalkDelete

SpecWalker == InitWalker /\ [][NextWalker]_vars

\* C7: after folding any sequence of NAME/STRUCT/DELETE records in stream
\* order an id is in the live mapping exactly when a NAME or STRUCT record
\* for it comes after its last DELETE record (or it has one and no DELETE).
C7_Tombstone ==
    \A id \in ObjectIds :
        id \in DOMAIN live
            <=> \E i \in 1..Len(walked) :
                    /\ walked[i].id = id /\ walked[i].typ \in {"NAME", "STRUCT"}
                    /\ \A j \in (i + 1)..Len(walked) :
                          ~(walked[j].id = id /\ walked[j].typ = "DELETE")

\* C7 witness: NAME(5), STRUCT(5), DELETE(5) folded, and id 5 is not live.
C7_Witness ==
    /\ Len(walked) = 3
    /\ [i \in 1..3 |-> <<walked[i].typ, walked[i].id>>]
           = <<<<"NAME", 5>>, <<"STRUCT", 5>>, <<"DELETE", 5>>>>
    /\ 5 \notin DOMAIN live

====
